---- MODULE Spec2Model ----
(***************************************************************************)
(* Model of the bingo-card interpretation pipeline of                      *)
(* src/src/utils/ocrParser.ts (class BingoOCRParser, lines 1-501).         *)
(*                                                                         *)
(* Conventions                                                             *)
(*   - a text is a sequence of one-character strings;                      *)
(*   - a confidence is an integer number of hundredths (0.3 is 30, 1.0 is  *)
(*     100); an annotation without the field has no "confidence" key;      *)
(*   - coordinates are integers; getCenter returns twice the midpoint so   *)
(*     that no half is lost, and the lattice index is the exact floor of   *)
(*     the rational quotient the code computes in floating point.          *)
(***************************************************************************)
EXTENDS Integers, Sequences, FiniteSets, TLC

VARIABLES
    pc,               \* position of parseBingoCard
    textAnnotations,  \* result.responses[0].textAnnotations being produced
    rawOcrResults,    \* value returned by callGoogleVisionAPI
    ocrResults,       \* rawOcrResults.filter(shouldProcessOCRResult)
    gridCells,        \* value returned by detectGridWithMultipleStrategies
    card,             \* the BingoCard returned
    error,            \* message of the Error thrown to the caller, Null when none
    tfResult,         \* OCRResult handed to the token-level functions
    tfPc,             \* position of the token-level application
    tfAccepted,       \* shouldProcessOCRResult(tfResult)
    tfNumbers,        \* extractAllPossibleNumbers(tfResult.text)
    apiKey,           \* import.meta.env.VITE_GOOGLE_VISION_API_KEY, "" when unset
    appPc,            \* position of handleImageUpload
    isProcessing,     \* App state
    currentCard,      \* App state, NoCard for null
    appError,         \* App state `error`, Null for null
    currentImage,     \* App state, Null for null
    response,         \* the provider's answer to the request of the running call
    calls,            \* calls of parseBingoCard so far
    requests,         \* calls of fetch so far
    lowDetectionLogged,  \* the last run of parseBingoCard wrote its console warning
    reading,          \* the files a FileReader of FileUpload is still reading
    analyses          \* the runs of handleImageUpload past the key check, in order

vars == <<pc, textAnnotations, rawOcrResults, ocrResults, gridCells, card,
          error, tfResult, tfPc, tfAccepted, tfNumbers, apiKey, appPc, isProcessing,
          currentCard, appError, currentImage, response, calls, requests,
          lowDetectionLogged, reading, analyses>>

pipeVars == <<pc, textAnnotations, rawOcrResults, ocrResults, gridCells, card, error>>
tokenVars == <<tfResult, tfPc, tfAccepted, tfNumbers>>
appVars == <<apiKey, appPc, isProcessing, currentCard, appError, currentImage, response,
             calls, requests, lowDetectionLogged, reading, analyses>>

(***************************************************************************)
(* Bounds                                                                  *)
(***************************************************************************)
MaxFrags == 3      \* annotations the provider adds one by one
MaxTextLen == 2    \* length of the generated texts of the token-level runs
MaxCalls == 2      \* calls of parseBingoCard the user causes

(***************************************************************************)
(* Program constants                                                       *)
(***************************************************************************)
GRID_SIZE == 5
FREE_SPACE_ROW == 2
FREE_SPACE_COL == 2
MinBingoNumber == 1
MaxBingoNumber == 75
ConfidenceThreshold == 30
DefaultConfidence == 80
LowDetectionThreshold == 15    \* parseBingoCard: detectedNumberCount < 15
AppWarningThreshold == 20      \* App: card.totalNumbers < 20
DensityMinimum == 20
MinHeaders == 3

COLUMN_RANGES ==
    <<[min |-> 1, max |-> 15], [min |-> 16, max |-> 30], [min |-> 31, max |-> 45],
      [min |-> 46, max |-> 60], [min |-> 61, max |-> 75]>>

OCR_CORRECTIONS ==
    << <<"O", "0">>, <<"o", "0">>, <<"Q", "0">>,
       <<"l", "1">>, <<"I", "1">>, <<"|", "1">>, <<"i", "1">>,
       <<"Z", "2">>, <<"z", "2">>,
       <<"S", "5">>, <<"s", "5">>,
       <<"G", "6">>, <<"b", "6">>,
       <<"T", "7">>, <<"t", "7">>,
       <<"B", "8">>, <<"g", "9">> >>

(***************************************************************************)
(* Characters and strings                                                  *)
(***************************************************************************)
Digits == <<"0", "1", "2", "3", "4", "5", "6", "7", "8", "9">>

IsDigit(c) == \E d \in 1..Len(Digits) : Digits[d] = c

DigitValue(c) == (CHOOSE d \in 1..Len(Digits) : Digits[d] = c) - 1

LowerCase ==
    <<"a", "b", "c", "d", "e", "f", "g", "h", "i", "j", "k", "l", "m",
      "n", "o", "p", "q", "r", "s", "t", "u", "v", "w", "x", "y", "z">>

UpperCase ==
    <<"A", "B", "C", "D", "E", "F", "G", "H", "I", "J", "K", "L", "M",
      "N", "O", "P", "Q", "R", "S", "T", "U", "V", "W", "X", "Y", "Z">>

\* String.prototype.toUpperCase, one character
UpperChar(c) ==
    IF \E k \in 1..Len(LowerCase) : LowerCase[k] = c
    THEN UpperCase[CHOOSE k \in 1..Len(LowerCase) : LowerCase[k] = c]
    ELSE c

toUpperCase(text) == [k \in 1..Len(text) |-> UpperChar(text[k])]

IsWhiteSpace(c) == c \in {" ", "\t", "\n"}

RECURSIVE trimStart(_)
trimStart(text) ==
    IF text # <<>> /\ IsWhiteSpace(Head(text)) THEN trimStart(Tail(text)) ELSE text

RECURSIVE trimEnd(_)
trimEnd(text) ==
    IF text # <<>> /\ IsWhiteSpace(text[Len(text)])
    THEN trimEnd(SubSeq(text, 1, Len(text) - 1))
    ELSE text

\* String.prototype.trim
trim(text) == trimEnd(trimStart(text))

\* parseInt of a run of one or two digits
RECURSIVE parseInt(_)
parseInt(run) ==
    IF run = <<>> THEN 0
    ELSE 10 * parseInt(SubSeq(run, 1, Len(run) - 1)) + DigitValue(run[Len(run)])

\* the concatenation of a sequence of sequences, in order: element p lies in
\* the part whose predecessors hold fewer than p elements together
Flatten(parts) ==
    LET widest == IF parts = <<>> THEN 0
                  ELSE CHOOSE w \in {Len(parts[j]) : j \in 1..Len(parts)} :
                           \A j \in 1..Len(parts) : Len(parts[j]) <= w
        before(k) == Cardinality({<<j, u>> \in (1..(k - 1)) \X (1..widest) :
                                      u <= Len(parts[j])})
        partOf(p) == CHOOSE k \in 1..Len(parts) :
                         before(k) < p /\ p <= before(k) + Len(parts[k])
    IN [p \in 1..before(Len(parts) + 1) |-> parts[partOf(p)][p - before(partOf(p))]]

\* text.match(/\d{1,2}/g) || [] : the greedy one-or-two digit runs, left to
\* right. A match starts at a digit that an even number of digits precedes
\* without a gap (the scan consumes the digits of a run in pairs), and takes
\* the next character too when it is a digit.
matchDigitRuns(text, from) ==
    LET digitsBefore(i) ==
            Cardinality({j \in from..(i - 1) : \A m \in j..(i - 1) : IsDigit(text[m])})
        startsMatch(i) == IsDigit(text[i]) /\ digitsBefore(i) % 2 = 0
        runAt(i) == IF i < Len(text) /\ IsDigit(text[i + 1])
                    THEN SubSeq(text, i, i + 1)
                    ELSE SubSeq(text, i, i)
        runsAt(positions) == [k \in 1..Len(positions) |-> runAt(positions[k])]
    IN runsAt(SelectSeq([i \in 1..(Len(text) - from + 1) |-> i + from - 1], startsMatch))

\* /\d/.test(text)
hasDigit(text) == \E k \in 1..Len(text) : IsDigit(text[k])

\* text.replace(new RegExp(wrong, 'g'), right) for a one-character source.
\* The source "|" is the alternation of two empty patterns: it matches the
\* empty string at every position, so `right` is inserted before every
\* character and at the end, and no character is replaced.
replaceAll(text, wrong, right) ==
    IF wrong = "|"
    THEN [k \in 1..(2 * Len(text) + 1) |-> IF k % 2 = 1 THEN right ELSE text[k \div 2]]
    ELSE [k \in 1..Len(text) |-> IF text[k] = wrong THEN right ELSE text[k]]

\* Object.entries(OCR_CORRECTIONS).forEach: the replacements lo..hi applied one
\* after the other in the order of the table (the range is split in two and
\* the length of the text is looked at first only so that the evaluation
\* stays shallow; the order of application is unchanged)
RECURSIVE applyCorrections(_, _, _)
applyCorrections(text, lo, hi) ==
    IF Len(text) < 0 THEN text
    ELSE IF lo = hi THEN replaceAll(text, OCR_CORRECTIONS[lo][1], OCR_CORRECTIONS[lo][2])
    ELSE applyCorrections(applyCorrections(text, lo, (lo + hi) \div 2),
                          (lo + hi) \div 2 + 1, hi)

correctOCRErrors(text) == applyCorrections(text, 1, Len(OCR_CORRECTIONS))

isValidBingoNumber(num) == num >= MinBingoNumber /\ num <= MaxBingoNumber

\* numbers.add(num) for every num of `nums`, in order, on the insertion-ordered
\* Set: a number stays where it was first added
setAddAll(numbers, nums) ==
    LET all == numbers \o nums
        first(k) == \A j \in 1..(k - 1) : all[j] # all[k]
        kept == SelectSeq([k \in 1..Len(all) |-> k], first)
    IN [k \in 1..Len(kept) |-> all[kept[k]]]

\* matches.forEach(match => { if valid, numbers.add(parseInt(match)) })
addMatches(numbers, matches) ==
    LET parsed == [k \in 1..Len(matches) |-> parseInt(matches[k])]
    IN setAddAll(numbers, SelectSeq(parsed, isValidBingoNumber))

\* slidingWindow without its one-digit test
slidingWindowPairsOnly(numbers, text, from) ==
    LET two(i) == IF i < Len(text) /\ IsDigit(text[i]) /\ IsDigit(text[i + 1])
                  THEN <<parseInt(SubSeq(text, i, i + 1))>> ELSE <<>>
        tried == Flatten([i \in 1..(Len(text) - from + 1) |-> two(i + from - 1)])
    IN setAddAll(numbers, SelectSeq(tried, isValidBingoNumber))

\* Strategy 3: the loop over the characters of the raw text; position i tries
\* its digit and then the two digits that start at it
slidingWindow(numbers, text, from) ==
    LET one(i) == IF IsDigit(text[i]) THEN <<parseInt(<<text[i]>>)>> ELSE <<>>
        two(i) == IF i < Len(text) /\ IsDigit(text[i]) /\ IsDigit(text[i + 1])
                  THEN <<parseInt(SubSeq(text, i, i + 1))>> ELSE <<>>
        tried == Flatten([i \in 1..(Len(text) - from + 1) |->
                             one(i + from - 1) \o two(i + from - 1)])
    IN setAddAll(numbers, SelectSeq(tried, isValidBingoNumber))

\* Array.from(numbers): the numbers in insertion order after the three
\* strategies. strategy2 gets the numbers of Strategy 1 and the corrected
\* text, strategy3 the numbers of Strategy 2; the tests on the lengths only
\* make each strategy be computed before the next one starts.
extractAllPossibleNumbers(text) ==
    LET strategy3(corrected) ==
            IF Len(corrected) < 0 THEN corrected
            ELSE slidingWindow(corrected, text, 1)
        strategy2(direct, correctedText) ==
            IF Len(direct) < 0 \/ Len(correctedText) < 0 THEN direct
            ELSE strategy3(addMatches(direct, matchDigitRuns(correctedText, 1)))
    IN strategy2(addMatches(<<>>, matchDigitRuns(text, 1)), correctOCRErrors(text))

\* result.confidence || d : undefined and 0 are falsy
confidenceOr(result, d) ==
    IF "confidence" \in DOMAIN result /\ result.confidence # 0 THEN result.confidence ELSE d

IsFreeOrSpace(text) ==
    toUpperCase(text) \in {<<"F", "R", "E", "E">>, <<"S", "P", "A", "C", "E">>}

IsHeaderText(text) ==
    toUpperCase(text) \in {<<"B">>, <<"I">>, <<"N">>, <<"G">>, <<"O">>}

\* shouldProcessOCRResult with the confidence test moved to the top
shouldProcessThresholdFirst(result) ==
    LET text == trim(result.text)
        confidence == confidenceOr(result, 0)
    IN IF confidence < ConfidenceThreshold THEN FALSE
       ELSE IF IsFreeOrSpace(text) THEN TRUE
       ELSE IF IsHeaderText(text) THEN FALSE
       ELSE IF hasDigit(text) THEN Len(extractAllPossibleNumbers(text)) > 0
       ELSE FALSE

\* shouldProcessOCRResult with the header test returning true
shouldProcessHeaderAccepted(result) ==
    LET text == trim(result.text)
        confidence == confidenceOr(result, 0)
    IN IF IsFreeOrSpace(text) THEN TRUE
       ELSE IF IsHeaderText(text) THEN TRUE
       ELSE IF confidence < ConfidenceThreshold THEN FALSE
       ELSE IF hasDigit(text) THEN Len(extractAllPossibleNumbers(text)) > 0
       ELSE FALSE

\* shouldProcessOCRResult without the confidence test
shouldProcessNoThreshold(result) ==
    LET text == trim(result.text)
    IN IF IsFreeOrSpace(text) THEN TRUE
       ELSE IF IsHeaderText(text) THEN FALSE
       ELSE IF hasDigit(text) THEN Len(extractAllPossibleNumbers(text)) > 0
       ELSE FALSE

shouldProcessOCRResult(result) ==
    LET text == trim(result.text)
        confidence == confidenceOr(result, 0)
    IN IF IsFreeOrSpace(text) THEN TRUE
       ELSE IF IsHeaderText(text) THEN FALSE
       ELSE IF confidence < ConfidenceThreshold THEN FALSE
       ELSE IF hasDigit(text) THEN Len(extractAllPossibleNumbers(text)) > 0
       ELSE FALSE

\* validateNumberInColumn looking up the range of the next column
validateNumberInNextColumn(number, col) ==
    LET next == IF col + 2 > GRID_SIZE THEN 1 ELSE col + 2
    IN number >= COLUMN_RANGES[next].min /\ number <= COLUMN_RANGES[next].max

validateNumberInColumn(number, col) ==
    number >= COLUMN_RANGES[col + 1].min /\ number <= COLUMN_RANGES[col + 1].max

(***************************************************************************)
(* Geometry                                                                *)
(***************************************************************************)
MinOf(S) == CHOOSE m \in S : \A n \in S : m <= n
MaxOf(S) == CHOOSE m \in S : \A n \in S : m >= n

Xs(vertices) == {vertices[k].x : k \in 1..Len(vertices)}
Ys(vertices) == {vertices[k].y : k \in 1..Len(vertices)}

\* twice the centre: x is Math.min(...xs) + Math.max(...xs), before the / 2
getCenter(vertices) ==
    [x |-> MinOf(Xs(vertices)) + MaxOf(Xs(vertices)),
     y |-> MinOf(Ys(vertices)) + MaxOf(Ys(vertices))]

getBoundingBox(vertices) ==
    [minX |-> MinOf(Xs(vertices)), minY |-> MinOf(Ys(vertices)),
     maxX |-> MaxOf(Xs(vertices)), maxY |-> MaxOf(Ys(vertices))]

\* the sort left out: the list in its order of arrival
sortByConfidenceNone(list) == list

\* a sort that is not stable: among elements of equal confidence the later
\* one comes first
sortByConfidenceTiesReversed(list) ==
    LET before(k) ==
            {j \in 1..Len(list) :
                \/ list[j].confidence - list[k].confidence > 0
                \/ list[j].confidence - list[k].confidence = 0 /\ j > k}
    IN [p \in 1..Len(list) |->
            list[CHOOSE k \in 1..Len(list) : Cardinality(before(k)) = p - 1]]

\* Array.prototype.sort is stable: an element comes after those that the
\* comparator puts strictly before it and after the earlier ones it ties with.
\* list.sort((a, b) => b.confidence - a.confidence)
sortByConfidence(list) ==
    LET before(k) ==
            {j \in 1..Len(list) :
                \/ list[j].confidence - list[k].confidence > 0
                \/ list[j].confidence - list[k].confidence = 0 /\ j < k}
    IN [p \in 1..Len(list) |->
            list[CHOOSE k \in 1..Len(list) : Cardinality(before(k)) = p - 1]]

\* list.sort((a, b) => centerA.x - centerB.x)
sortByCenterX(list) ==
    LET x(k) == getCenter(list[k].vertices).x
        before(k) ==
            {j \in 1..Len(list) : x(j) - x(k) < 0 \/ (x(j) - x(k) = 0 /\ j < k)}
    IN [p \in 1..Len(list) |->
            list[CHOOSE k \in 1..Len(list) : Cardinality(before(k)) = p - 1]]

\* Array.prototype.filter with the predicate given as the set of kept elements
filterIn(list, keep) ==
    LET kept(x) == x \in keep
    IN SelectSeq(list, kept)

Elements(list) == {list[k] : k \in 1..Len(list)}

(***************************************************************************)
(* Grid locator                                                            *)
(***************************************************************************)
Cells == 0..(GRID_SIZE - 1)

EmptyGrid == [r \in Cells |-> [c \in Cells |-> <<>>]]

findHeaders(results) ==
    sortByCenterX(filterIn(results, {r \in Elements(results) : IsHeaderText(r.text)}))

clusterByDensity(results) ==
    filterIn(results,
             {r \in Elements(results) : Len(extractAllPossibleNumbers(r.text)) > 0})

Clamp(v) == IF v < 0 THEN 0 ELSE IF v > GRID_SIZE - 1 THEN GRID_SIZE - 1 ELSE v

\* The bounds over all results; lengths are kept times ten so that the 10%
\* padding is exact: minX10 is ten times the padded minX.
relaxedBounds(results) ==
    LET boxes == {getBoundingBox(r.vertices) : r \in Elements(results)}
        minX == MinOf({b.minX : b \in boxes})
        minY == MinOf({b.minY : b \in boxes})
        maxX == MaxOf({b.maxX : b \in boxes})
        maxY == MaxOf({b.maxY : b \in boxes})
        width == maxX - minX
        height == maxY - minY
    IN [minX10 |-> 10 * minX - width, minY10 |-> 10 * minY - height,
        maxX10 |-> 10 * maxX + width, maxY10 |-> 10 * maxY + height]

\* Math.floor((center.x - minX) / cellWidth) with cellWidth = (maxX - minX) / 5:
\* center.x * 10 is 5 * getCenter.x, and the quotient is
\* 5 * (5 * c - minX10) / (maxX10 - minX10)
relaxedIndex(c, min10, max10) == (5 * (5 * c - min10)) \div (max10 - min10)

\* relaxedCell with the row taken from x and the column from y
relaxedCellTransposed(result, bounds) ==
    LET center == getCenter(result.vertices)
    IN [row |-> Clamp(relaxedIndex(center.x, bounds.minX10, bounds.maxX10)),
        col |-> Clamp(relaxedIndex(center.y, bounds.minY10, bounds.maxY10))]

relaxedCell(result, bounds) ==
    LET center == getCenter(result.vertices)
    IN [row |-> Clamp(relaxedIndex(center.y, bounds.minY10, bounds.maxY10)),
        col |-> Clamp(relaxedIndex(center.x, bounds.minX10, bounds.maxX10))]

\* results.forEach(result => grid[clampedRow][clampedCol].push(result)):
\* a cell holds, in their order, the results whose clamped cell it is
relaxedPlace(grid, results, bounds) ==
    [r \in Cells |-> [c \in Cells |->
        LET here(result) == relaxedCell(result, bounds) = [row |-> r, col |-> c]
        IN grid[r][c] \o SelectSeq(results, here)]]

\* A bounding box of zero width or height makes cellWidth or cellHeight 0 and
\* the index 0 / 0 = NaN; grid[NaN] is undefined and the push throws a
\* TypeError. threw tells that outcome.
gridFromBoundingBoxRelaxed(results) ==
    IF results = <<>> THEN [threw |-> FALSE, grid |-> EmptyGrid]
    ELSE LET bounds == relaxedBounds(results)
         IN IF bounds.maxX10 = bounds.minX10 \/ bounds.maxY10 = bounds.minY10
            THEN [threw |-> TRUE, grid |-> EmptyGrid]
            ELSE [threw |-> FALSE, grid |-> relaxedPlace(EmptyGrid, results, bounds)]

gridFromClusters(clusters) == gridFromBoundingBoxRelaxed(clusters)

\* col = floor((center.x - minX) / cellWidth) with
\*   cellWidth = (last - first) / (n - 1), minX = first - cellWidth / 2
\* is floor((2 * (n - 1) * (c - first) + d) / (2 * d)) on the doubled centres,
\* d = last - first; row = floor(5 * (c - 2 * minY) / (2 * height)).
\* A zero d or height gives NaN or an infinity, which the range test rejects.
headerCell(result, first, d, n, minY, height) ==
    LET center == getCenter(result.vertices)
    IN [inRange |-> d > 0 /\ height > 0,
        col |-> IF d > 0 THEN (2 * (n - 1) * (center.x - first) + d) \div (2 * d) ELSE 0,
        row |-> IF height > 0 THEN (5 * (center.y - 2 * minY)) \div (2 * height) ELSE 0]

\* results.forEach(result => if in range, grid[row][col].push(result))
headerPlace(grid, results, first, d, n, minY, height) ==
    [r \in Cells |-> [c \in Cells |->
        LET here(result) ==
                LET cell == headerCell(result, first, d, n, minY, height)
                IN cell.inRange /\ cell.row = r /\ cell.col = c
        IN grid[r][c] \o SelectSeq(results, here)]]

gridFromHeaders(headers, results) ==
    LET boundaries == [k \in 1..Len(headers) |-> getCenter(headers[k].vertices).x]
        boxes == {getBoundingBox(r.vertices) : r \in Elements(results)}
        minY == MinOf({b.minY : b \in boxes})
        maxY == MaxOf({b.maxY : b \in boxes})
    IN [threw |-> FALSE,
        grid |-> headerPlace(EmptyGrid, results, boundaries[1],
                             boundaries[Len(boundaries)] - boundaries[1],
                             Len(boundaries), minY, maxY - minY)]

\* detectGridWithMultipleStrategies without its header strategy
detectGridWithoutHeaders(results) ==
    LET clusters == clusterByDensity(results)
    IN IF Len(clusters) >= DensityMinimum THEN gridFromClusters(clusters)
       ELSE gridFromBoundingBoxRelaxed(results)

detectGridWithMultipleStrategies(results) ==
    LET headers == findHeaders(results)
        clusters == clusterByDensity(results)
    IN IF Len(headers) >= MinHeaders THEN gridFromHeaders(headers, results)
       ELSE IF Len(clusters) >= DensityMinimum THEN gridFromClusters(clusters)
       ELSE gridFromBoundingBoxRelaxed(results)

(***************************************************************************)
(* Cell resolver and card aggregator (the body of parseBingoCard)          *)
(***************************************************************************)
Null == <<"null">>          \* the value null of freeSpaceContent: no text equals it
FreeText == <<"F", "R", "E", "E">>

\* for (const num of extractedNumbers) if (validateNumberInColumn) push
numberCandidates(result, extractedNumbers, row, col) ==
    LET inColumn(num) == validateNumberInColumn(num, col)
        valid == SelectSeq(extractedNumbers, inColumn)
    IN [k \in 1..Len(valid) |->
            [value |-> valid[k], isOdd |-> (valid[k] % 2 = 1), row |-> row, col |-> col,
             confidence |-> result.confidence]]

\* for (const result of cellResults) ...
cellCandidatesOf(cellResults, row, col) ==
    Flatten([k \in 1..Len(cellResults) |->
                numberCandidates(cellResults[k],
                                 extractAllPossibleNumbers(cellResults[k].text), row, col)])

\* processCell without the `continue` that ends the free-space branch
processCellNoContinue(acc, grid, row, col) ==
    LET cellResults == sortByConfidence(grid[row][col])
        cellCandidates == sortByConfidence(cellCandidatesOf(cellResults, row, col))
        free == IF row = FREE_SPACE_ROW /\ col = FREE_SPACE_COL
                THEN [acc EXCEPT !.freeSpaceContent =
                         IF Len(cellResults) > 0 THEN trim(cellResults[1].text) ELSE FreeText]
                ELSE acc
    IN IF Len(cellCandidates) > 0
       THEN [free EXCEPT !.numbers = Append(@, cellCandidates[1]),
                         !.totalConfidence = @ + cellCandidates[1].confidence,
                         !.detectedNumberCount = @ + 1]
       ELSE free

\* processCell pushing every candidate of the cell instead of the best one
processCellAllCandidates(acc, grid, row, col) ==
    LET cellResults == sortByConfidence(grid[row][col])
        cellCandidates == sortByConfidence(cellCandidatesOf(cellResults, row, col))
    IN IF row = FREE_SPACE_ROW /\ col = FREE_SPACE_COL
       THEN [acc EXCEPT !.freeSpaceContent =
                IF Len(cellResults) > 0 THEN trim(cellResults[1].text) ELSE FreeText]
       ELSE IF Len(cellCandidates) > 0
       THEN [acc EXCEPT !.numbers = @ \o cellCandidates,
                        !.totalConfidence = @ + cellCandidates[1].confidence,
                        !.detectedNumberCount = @ + 1]
       ELSE acc

\* one iteration of the double loop over the grid, on the accumulators
processCell(acc, grid, row, col) ==
    LET cellResults == sortByConfidence(grid[row][col])
        cellCandidates == sortByConfidence(cellCandidatesOf(cellResults, row, col))
    IN IF row = FREE_SPACE_ROW /\ col = FREE_SPACE_COL
       THEN [acc EXCEPT !.freeSpaceContent =
                IF Len(cellResults) > 0 THEN trim(cellResults[1].text) ELSE FreeText]
       ELSE IF Len(cellCandidates) > 0
       THEN [acc EXCEPT !.numbers = Append(@, cellCandidates[1]),
                        !.totalConfidence = @ + cellCandidates[1].confidence,
                        !.detectedNumberCount = @ + 1]
       ELSE acc

\* for (let col = 0; col < GRID_SIZE; col++) of one row, from column `col` on
\* with the accumulators `acc`; the test on acc only makes an iteration's
\* result be computed before the next iteration starts
RECURSIVE processRow(_, _, _, _)
processRow(acc, grid, row, col) ==
    IF col >= GRID_SIZE \/ acc.detectedNumberCount < 0 THEN acc
    ELSE processRow(processCell(acc, grid, row, col), grid, row, col + 1)

\* for (let row = 0; row < GRID_SIZE; row++), from row `row` on
RECURSIVE processCells(_, _, _)
processCells(acc, grid, row) ==
    IF row >= GRID_SIZE \/ acc.detectedNumberCount < 0 THEN acc
    ELSE processCells(processRow(acc, grid, row, 0), grid, row + 1)

countWhere(list, S) == Cardinality({k \in 1..Len(list) : list[k] \in S})

\* cardOf with the two filters exchanged
cardOfCountsExchanged(acc) ==
    [numbers |-> acc.numbers,
     freeSpaceContent |-> acc.freeSpaceContent,
     oddsCount |-> countWhere(acc.numbers, {n \in Elements(acc.numbers) : ~n.isOdd}),
     evensCount |-> countWhere(acc.numbers, {n \in Elements(acc.numbers) : n.isOdd}),
     totalNumbers |-> acc.detectedNumberCount,
     confidence |-> IF acc.detectedNumberCount > 0
                    THEN [num |-> acc.totalConfidence, den |-> acc.detectedNumberCount]
                    ELSE [num |-> 0, den |-> 1]]

\* the object parseBingoCard returns for the accumulators the loop leaves;
\* confidence is the quotient totalConfidence / detectedNumberCount kept as
\* numerator and denominator
cardOf(acc) ==
    [numbers |-> acc.numbers,
     freeSpaceContent |-> acc.freeSpaceContent,
     oddsCount |-> countWhere(acc.numbers, {n \in Elements(acc.numbers) : n.isOdd}),
     evensCount |-> countWhere(acc.numbers, {n \in Elements(acc.numbers) : ~n.isOdd}),
     totalNumbers |-> acc.detectedNumberCount,
     confidence |-> IF acc.detectedNumberCount > 0
                    THEN [num |-> acc.totalConfidence, den |-> acc.detectedNumberCount]
                    ELSE [num |-> 0, den |-> 1]]

\* the accumulators as declared before the loop, the loop, and the return
buildCard(grid) ==
    cardOf(processCells([numbers |-> <<>>, freeSpaceContent |-> Null,
                         totalConfidence |-> 0, detectedNumberCount |-> 0], grid, 0))

\* toOcrResult with `|| 0` in place of `|| 0.8`
toOcrResultZeroDefault(annotation) ==
    [text |-> annotation.description,
     confidence |-> confidenceOr(annotation, 0),
     vertices |-> annotation.boundingPoly.vertices]

\* textAnnotations.slice(1).map(annotation => ({text, confidence || 0.8, vertices}))
toOcrResult(annotation) ==
    [text |-> annotation.description,
     confidence |-> confidenceOr(annotation, DefaultConfidence),
     vertices |-> annotation.boundingPoly.vertices]

mapAnnotations(annotations) ==
    [k \in 1..(Len(annotations) - 1) |-> toOcrResult(annotations[k + 1])]

filterResults(results) ==
    filterIn(results, {r \in Elements(results) : shouldProcessOCRResult(r)})

(***************************************************************************)
(* Error messages, as texts (sequences of characters)                      *)
(***************************************************************************)
\* "Invalid image data format. Expected data URL with base64 content."
InvalidFormatMessage ==
    <<"I", "n", "v", "a", "l", "i", "d", " ", "i", "m", "a", "g", "e", " ", "d", "a", "t",
      "a", " ", "f", "o", "r", "m", "a", "t", ".", " ", "E", "x", "p", "e", "c", "t", "e",
      "d", " ", "d", "a", "t", "a", " ", "U", "R", "L", " ", "w", "i", "t", "h", " ", "b",
      "a", "s", "e", "6", "4", " ", "c", "o", "n", "t", "e", "n", "t", ".">>

\* "Empty base64 content extracted from image data."
EmptyContentMessage ==
    <<"E", "m", "p", "t", "y", " ", "b", "a", "s", "e", "6", "4", " ", "c", "o", "n", "t",
      "e", "n", "t", " ", "e", "x", "t", "r", "a", "c", "t", "e", "d", " ", "f", "r", "o",
      "m", " ", "i", "m", "a", "g", "e", " ", "d", "a", "t", "a", ".">>

\* "Invalid base64 format detected."
InvalidBase64Message ==
    <<"I", "n", "v", "a", "l", "i", "d", " ", "b", "a", "s", "e", "6", "4", " ", "f", "o",
      "r", "m", "a", "t", " ", "d", "e", "t", "e", "c", "t", "e", "d", ".">>

\* "API quota exceeded. Please try again later."
QuotaMessage ==
    <<"A", "P", "I", " ", "q", "u", "o", "t", "a", " ", "e", "x", "c", "e", "e", "d", "e",
      "d", ".", " ", "P", "l", "e", "a", "s", "e", " ", "t", "r", "y", " ", "a", "g", "a",
      "i", "n", " ", "l", "a", "t", "e", "r", ".">>

\* "Invalid API key. Please check your configuration."
KeyMessage ==
    <<"I", "n", "v", "a", "l", "i", "d", " ", "A", "P", "I", " ", "k", "e", "y", ".", " ",
      "P", "l", "e", "a", "s", "e", " ", "c", "h", "e", "c", "k", " ", "y", "o", "u", "r",
      " ", "c", "o", "n", "f", "i", "g", "u", "r", "a", "t", "i", "o", "n", ".">>

\* "Bad request to Vision API. Response: "
BadRequestPrefix ==
    <<"B", "a", "d", " ", "r", "e", "q", "u", "e", "s", "t", " ", "t", "o", " ", "V", "i",
      "s", "i", "o", "n", " ", "A", "P", "I", ".", " ", "R", "e", "s", "p", "o", "n", "s",
      "e", ":", " ">>

\* "Vision API error: "
VisionErrorPrefix ==
    <<"V", "i", "s", "i", "o", "n", " ", "A", "P", "I", " ", "e", "r", "r", "o", "r", ":",
      " ">>

\* ". Response: "
ResponseInfix ==
    <<".", " ", "R", "e", "s", "p", "o", "n", "s", "e", ":", " ">>

\* "No valid text detected in the image. Please ensure the image is clear and well-lit."
NoValidTextMessage ==
    <<"N", "o", " ", "v", "a", "l", "i", "d", " ", "t", "e", "x", "t", " ", "d", "e", "t",
      "e", "c", "t", "e", "d", " ", "i", "n", " ", "t", "h", "e", " ", "i", "m", "a", "g",
      "e", ".", " ", "P", "l", "e", "a", "s", "e", " ", "e", "n", "s", "u", "r", "e", " ",
      "t", "h", "e", " ", "i", "m", "a", "g", "e", " ", "i", "s", " ", "c", "l", "e", "a",
      "r", " ", "a", "n", "d", " ", "w", "e", "l", "l", "-", "l", "i", "t", ".">>

\* the message of the TypeError that grid[NaN][NaN].push(result) throws; the
\* wording is the engine's (here V8's)
\* "Cannot read properties of undefined (reading 'push')"
TypeErrorMessage ==
    <<"C", "a", "n", "n", "o", "t", " ", "r", "e", "a", "d", " ", "p", "r", "o", "p", "e",
      "r", "t", "i", "e", "s", " ", "o", "f", " ", "u", "n", "d", "e", "f", "i", "n", "e",
      "d", " ", "(", "r", "e", "a", "d", "i", "n", "g", " ", "'", "p", "u", "s", "h", "'",
      ")">>

\* "OCR failed: "
OcrFailedPrefix ==
    <<"O", "C", "R", " ", "f", "a", "i", "l", "e", "d", ":", " ">>

\* "quota"
QuotaWord ==
    <<"q", "u", "o", "t", "a">>

\* "key"
KeyWord ==
    <<"k", "e", "y">>

\* "Warning: Only detected "
WarningPrefix ==
    <<"W", "a", "r", "n", "i", "n", "g", ":", " ", "O", "n", "l", "y", " ", "d", "e", "t",
      "e", "c", "t", "e", "d", " ">>

\* " numbers. Image quality may be poor."
WarningSuffix ==
    <<" ", "n", "u", "m", "b", "e", "r", "s", ".", " ", "I", "m", "a", "g", "e", " ", "q",
      "u", "a", "l", "i", "t", "y", " ", "m", "a", "y", " ", "b", "e", " ", "p", "o", "o",
      "r", ".">>

\* "Google Vision API key not found. Please set VITE_GOOGLE_VISION_API_KEY environment variable."
ApiKeyMissingMessage ==
    <<"G", "o", "o", "g", "l", "e", " ", "V", "i", "s", "i", "o", "n", " ", "A", "P", "I",
      " ", "k", "e", "y", " ", "n", "o", "t", " ", "f", "o", "u", "n", "d", ".", " ", "P",
      "l", "e", "a", "s", "e", " ", "s", "e", "t", " ", "V", "I", "T", "E", "_", "G", "O",
      "O", "G", "L", "E", "_", "V", "I", "S", "I", "O", "N", "_", "A", "P", "I", "_", "K",
      "E", "Y", " ", "e", "n", "v", "i", "r", "o", "n", "m", "e", "n", "t", " ", "v", "a",
      "r", "i", "a", "b", "l", "e", ".">>

\* String.prototype.includes
includes(text, word) ==
    \E i \in 1..(Len(text) - Len(word) + 1) : SubSeq(text, i, i + Len(word) - 1) = word

\* the catch block of parseBingoCard on an Error with this message: the
\* message of the Error it throws instead
rewrap(message) ==
    IF includes(message, QuotaWord) THEN QuotaMessage
    ELSE IF includes(message, KeyWord) THEN KeyMessage
    ELSE OcrFailedPrefix \o message

\* what the caller gets when no fragment is left, and when the grid throws
NoValidText == rewrap(NoValidTextMessage)
GridTypeError == rewrap(TypeErrorMessage)

(***************************************************************************)
(* callGoogleVisionAPI: the input check and the provider's answer          *)
(***************************************************************************)
\* String.prototype.split on a one-character separator: the pieces between
\* the separators, one more than there are separators
split(text, sep) ==
    LET isCut(i) == text[i] = sep
        piecesAt(cuts) ==
            [k \in 1..(Len(cuts) - 1) |-> SubSeq(text, cuts[k] + 1, cuts[k + 1] - 1)]
    IN piecesAt(<<0>> \o SelectSeq([i \in 1..Len(text) |-> i], isCut) \o <<Len(text) + 1>>)

IsBase64Char(c) ==
    \/ \E k \in 1..Len(UpperCase) : UpperCase[k] = c
    \/ \E k \in 1..Len(LowerCase) : LowerCase[k] = c
    \/ IsDigit(c)
    \/ c \in {"+", "/"}

\* /^[A-Za-z0-9+/]*={0,2}$/.test(text)
base64Regex(text) ==
    \E pad \in 0..2 :
        /\ pad <= Len(text)
        /\ \A i \in 1..(Len(text) - pad) : IsBase64Char(text[i])
        /\ \A i \in (Len(text) - pad + 1)..Len(text) : text[i] = "="

\* the three checks on the parts of the payload: the message of the Error
\* thrown, or Null when the request is built
checkParts(base64Parts) ==
    IF Len(base64Parts) # 2 THEN InvalidFormatMessage
    ELSE IF Len(base64Parts[2]) = 0 THEN EmptyContentMessage
    ELSE IF ~base64Regex(base64Parts[2]) THEN InvalidBase64Message
    ELSE Null

validateImage(imageBase64) == checkParts(split(imageBase64, ","))

\* a variant of fetchCount in which the request is sent a second time
fetchCountResent(imageBase64) == IF validateImage(imageBase64) = Null THEN 2 ELSE 0

\* the number of calls to fetch that one call of callGoogleVisionAPI makes
fetchCount(imageBase64) == IF validateImage(imageBase64) = Null THEN 1 ELSE 0

\* a number in a template literal or a string concatenation: its decimal digits
RECURSIVE toDecimal(_)
toDecimal(n) ==
    IF n < 10 THEN <<Digits[n + 1]>> ELSE Append(toDecimal(n \div 10), Digits[(n % 10) + 1])

\* response.ok
responseOk(status) == status >= 200 /\ status <= 299

\* the message of the Error thrown for a response that is not ok
statusMessage(status, responseText) ==
    IF status = 429 THEN QuotaMessage
    ELSE IF status = 403 THEN KeyMessage
    ELSE IF status = 400 THEN BadRequestPrefix \o responseText
    ELSE VisionErrorPrefix \o toDecimal(status) \o ResponseInfix \o responseText

\* what callGoogleVisionAPI does with the response: it throws an Error with
\* `message`, or returns `value`. result stands for result.responses[0].
callOutcome(answer) ==
    IF ~responseOk(answer.status)
    THEN [threw |-> TRUE, message |-> statusMessage(answer.status, answer.text)]
    ELSE IF "error" \in DOMAIN answer.result
    THEN [threw |-> TRUE, message |-> answer.result.error.message]
    ELSE [threw |-> FALSE,
          value |-> IF "textAnnotations" \in DOMAIN answer.result
                    THEN mapAnnotations(answer.result.textAnnotations)
                    ELSE <<>>]

(***************************************************************************)
(* parseBingoCard as a whole: what it returns or throws                    *)
(***************************************************************************)
\* the part after the grid locator
parseLocated(located) ==
    IF located.threw THEN [threw |-> TRUE, message |-> rewrap(TypeErrorMessage)]
    ELSE [threw |-> FALSE, card |-> buildCard(located.grid)]

\* a variant of parseFiltered that throws for a single fragment too
parseFilteredAtMostOne(results) ==
    IF Len(results) <= 1 THEN [threw |-> TRUE, message |-> rewrap(NoValidTextMessage)]
    ELSE parseLocated(detectGridWithMultipleStrategies(results))

\* the part after the filter
parseFiltered(results) ==
    IF Len(results) = 0 THEN [threw |-> TRUE, message |-> rewrap(NoValidTextMessage)]
    ELSE parseLocated(detectGridWithMultipleStrategies(results))

\* the part after callGoogleVisionAPI, given what it did
parseOutcome(call) ==
    IF call.threw THEN [threw |-> TRUE, message |-> rewrap(call.message)]
    ELSE parseFiltered(filterResults(call.value))

\* console.warn of the low detection rate
LowDetectionLogged(parsed) == ~parsed.threw /\ parsed.card.totalNumbers < LowDetectionThreshold

(***************************************************************************)
(* App.tsx: what handleImageUpload does with the outcome                   *)
(***************************************************************************)
\* no card: the value null of currentCard, and the card of a failed run
NoCard == [numbers |-> <<>>, freeSpaceContent |-> Null, oddsCount |-> 0,
           evensCount |-> 0, totalNumbers |-> 0, confidence |-> [num |-> 0, den |-> 1]]

\* "Warning: Only detected " + card.totalNumbers + " numbers. Image quality may be poor."
warningMessage(totalNumbers) ==
    WarningPrefix \o toDecimal(totalNumbers) \o WarningSuffix

\* the value of `error` after the try statement
errorAfter(parsed) ==
    IF parsed.threw THEN parsed.message
    ELSE IF parsed.card.totalNumbers < AppWarningThreshold
    THEN warningMessage(parsed.card.totalNumbers)
    ELSE Null

\* the value of `currentCard` after the try statement; NoCard stands for null
cardAfter(parsed) == IF parsed.threw THEN NoCard ELSE parsed.card

(***************************************************************************)
(* Inputs: the annotations the provider may return                         *)
(***************************************************************************)
Rect(x0, y0, x1, y1) ==
    <<[x |-> x0, y |-> y0], [x |-> x1, y |-> y0], [x |-> x1, y |-> y1], [x |-> x0, y |-> y1]>>

Ann(description, confidence, vertices) ==
    [description |-> description, confidence |-> confidence,
     boundingPoly |-> [vertices |-> vertices]]

AnnNoConfidence(description, vertices) ==
    [description |-> description, boundingPoly |-> [vertices |-> vertices]]

TopLeft == Rect(0, 0, 10, 10)
TopLeftToo == Rect(2, 2, 12, 12)
TopSecond == Rect(25, 0, 35, 10)
Middle == Rect(45, 45, 55, 55)
BottomRight == Rect(90, 90, 100, 100)
FarAway == Rect(200, 200, 210, 210)
Flat == Rect(50, 40, 50, 60)

Annotations ==
    { Ann(<<"1", "2">>, 90, TopLeft),
      Ann(<<"7">>, 95, TopLeftToo),
      Ann(<<"S", "P", "A", "C", "E">>, 0, TopLeft),
      Ann(<<"1", "7">>, 30, TopSecond),
      Ann(<<"1", "7">>, 90, Middle),
      AnnNoConfidence(<<" ", "F", "r", "e", "e", " ">>, Middle),
      Ann(<<"6", "0", "6", "3">>, 90, BottomRight),
      Ann(<<"B">>, 90, BottomRight),
      Ann(<<"4", "2">>, 20, FarAway),
      Ann(<<"4", "2">>, 90, Flat) }

\* the first annotation is the full text of the page, which the code drops
FullText == AnnNoConfidence(<<"*">>, Rect(0, 0, 210, 210))

\* A whole card: one annotation per cell of a uniform lattice, the number of
\* cell (row, col) being the row-th number of the column's range, all with
\* confidence 0.9; the centre cell holds `centre` (none when it is <<>>).
NumeralOf(n) ==
    IF n < 10 THEN <<Digits[n + 1]>> ELSE <<Digits[(n \div 10) + 1], Digits[(n % 10) + 1]>>

LatticeRect(row, col) == Rect(20 * col + 5, 20 * row + 5, 20 * col + 15, 20 * row + 15)

LatticeAnnotation(k) ==
    Ann(NumeralOf(COLUMN_RANGES[(k % GRID_SIZE) + 1].min + (k \div GRID_SIZE)), 90,
        LatticeRect(k \div GRID_SIZE, k % GRID_SIZE))

CardAnnotations(centre) ==
    [k \in 1..12 |-> LatticeAnnotation(k - 1)] \o centre
        \o [k \in 1..12 |-> LatticeAnnotation(k + 12)]

Centres ==
    { <<>>,
      <<Ann(<<"3", "8">>, 90, LatticeRect(FREE_SPACE_ROW, FREE_SPACE_COL))>>,
      <<Ann(<<"f", "r", "e", "e">>, 10, LatticeRect(FREE_SPACE_ROW, FREE_SPACE_COL))>> }

(***************************************************************************)
(* parseBingoCard, one step per stage                                      *)
(***************************************************************************)
TokenIdle ==
    /\ tfResult = [text |-> <<>>]
    /\ tfPc = "idle"
    /\ tfAccepted = FALSE
    /\ tfNumbers = <<>>

PipelineIdle ==
    /\ pc = "idle"
    /\ textAnnotations = <<>>
    /\ rawOcrResults = <<>>
    /\ ocrResults = <<>>
    /\ gridCells = EmptyGrid
    /\ card = NoCard
    /\ error = Null

\* the App as mounted, with the key of the build
NoResponse == [status |-> 0]

AppIdle ==
    /\ appPc = "idle"
    /\ isProcessing = FALSE
    /\ currentCard = NoCard
    /\ appError = Null
    /\ currentImage = Null
    /\ response = NoResponse
    /\ calls = 0
    /\ requests = 0
    /\ lowDetectionLogged = FALSE
    /\ reading = <<>>
    /\ analyses = <<>>

Init == PipelineIdle /\ TokenIdle /\ AppIdle /\ apiKey = "key"

\* parseBingoCard is called and the request is on its way
Call ==
    /\ pc = "idle"
    /\ pc' = "awaiting"
    /\ UNCHANGED <<textAnnotations, rawOcrResults, ocrResults, gridCells, card, error>>
    /\ UNCHANGED tokenVars
    /\ UNCHANGED appVars

\* the provider detects one more piece of text
ProviderAnnotate ==
    /\ pc = "awaiting"
    /\ Len(textAnnotations) - 1 < MaxFrags
    /\ \E a \in Annotations :
          textAnnotations' = IF textAnnotations = <<>> THEN <<FullText, a>>
                             ELSE Append(textAnnotations, a)
    /\ UNCHANGED <<pc, rawOcrResults, ocrResults, gridCells, card, error>>
    /\ UNCHANGED tokenVars
    /\ UNCHANGED appVars

\* the provider detects a whole card
ProviderAnnotateCard ==
    /\ pc = "awaiting"
    /\ textAnnotations = <<>>
    /\ \E centre \in Centres : textAnnotations' = <<FullText>> \o CardAnnotations(centre)
    /\ UNCHANGED <<pc, rawOcrResults, ocrResults, gridCells, card, error>>
    /\ UNCHANGED tokenVars
    /\ UNCHANGED appVars

\* callGoogleVisionAPI returns the mapped annotations
ApiReturn ==
    /\ pc = "awaiting"
    /\ rawOcrResults' = mapAnnotations(textAnnotations)
    /\ pc' = "filter"
    /\ UNCHANGED <<textAnnotations, ocrResults, gridCells, card, error>>
    /\ UNCHANGED tokenVars
    /\ UNCHANGED appVars

\* the token filter, and the throw when nothing is left
Filter ==
    /\ pc = "filter"
    /\ ocrResults' = filterResults(rawOcrResults)
    /\ IF Len(ocrResults') = 0
       THEN pc' = "failed" /\ error' = NoValidText
       ELSE pc' = "locate" /\ error' = error
    /\ UNCHANGED <<textAnnotations, rawOcrResults, gridCells, card>>
    /\ UNCHANGED tokenVars
    /\ UNCHANGED appVars

\* the grid locator
Locate ==
    /\ pc = "locate"
    /\ LET located == detectGridWithMultipleStrategies(ocrResults)
       IN IF located.threw
          THEN pc' = "failed" /\ error' = GridTypeError /\ gridCells' = gridCells
          ELSE pc' = "resolve" /\ error' = error /\ gridCells' = located.grid
    /\ UNCHANGED <<textAnnotations, rawOcrResults, ocrResults, card>>
    /\ UNCHANGED tokenVars
    /\ UNCHANGED appVars

\* the loop over the cells and the returned card
Resolve ==
    /\ pc = "resolve"
    /\ card' = buildCard(gridCells)
    /\ pc' = "done"
    /\ UNCHANGED <<textAnnotations, rawOcrResults, ocrResults, gridCells, error>>
    /\ UNCHANGED tokenVars
    /\ UNCHANGED appVars

Next ==
    \/ Call
    \/ ProviderAnnotate
    \/ ProviderAnnotateCard
    \/ ApiReturn
    \/ Filter
    \/ Locate
    \/ Resolve

Spec == Init /\ [][Next]_vars

(***************************************************************************)
(* The token-level functions applied to one OCRResult                      *)
(***************************************************************************)
TokenAlphabet == {"0", "3", "6", "7", "B", "b", "O", " ", "x"}

GeneratedTexts == UNION {[1..n -> TokenAlphabet] : n \in 0..MaxTextLen}

NamedTexts ==
    { <<"6", "0", "6", "3">>, <<"1", "7">>, <<"4", "2">>, <<"l", "7">>, <<"7", "|">>,
      <<"F", "R", "E", "E">>, <<"f", "r", "e", "e">>, <<" ", "F", "r", "e", "e", "\n">>,
      <<"S", "P", "A", "C", "E">>, <<"s", "p", "a", "c", "e">>, <<"S", "p", "A", "c", "E", " ">>,
      <<"F", "R", "E", "E", "7">>, <<"S", "P", "A", "C", "E", "S">>,
      <<"I">>, <<"N">>, <<"G">>, <<"i">>, <<"n">>, <<"g">>, <<"o">>, <<"\t", "G", " ">>,
      <<"B", "I", "N", "G", "O">>, <<"B", "I">> }

TokenTexts == GeneratedTexts \cup NamedTexts

TokenConfidences == {0, 10, 29, 30, 31, 90, 100}

TokenResults ==
    {[text |-> t, confidence |-> c] : t \in TokenTexts, c \in TokenConfidences}
    \cup {[text |-> t] : t \in TokenTexts}

TokenInit ==
    /\ PipelineIdle
    /\ AppIdle
    /\ apiKey = "key"
    /\ tfResult \in TokenResults
    /\ tfPc = "start"
    /\ tfAccepted = FALSE
    /\ tfNumbers = <<>>

\* shouldProcessOCRResult(result)
ApplyFilter ==
    /\ tfPc = "start"
    /\ tfAccepted' = shouldProcessOCRResult(tfResult)
    /\ tfPc' = "filtered"
    /\ UNCHANGED <<tfResult, tfNumbers>>
    /\ UNCHANGED pipeVars
    /\ UNCHANGED appVars

\* extractAllPossibleNumbers(result.text)
ApplyExtract ==
    /\ tfPc = "filtered"
    /\ tfNumbers' = extractAllPossibleNumbers(tfResult.text)
    /\ tfPc' = "extracted"
    /\ UNCHANGED <<tfResult, tfAccepted>>
    /\ UNCHANGED pipeVars
    /\ UNCHANGED appVars

TokenNext ==
    \/ ApplyFilter
    \/ ApplyExtract

TokenSpec == TokenInit /\ [][TokenNext]_vars

(***************************************************************************)
(* The App: uploads, retries and resets around parseBingoCard              *)
(***************************************************************************)
DataPrefix == <<"d", "a", "t", "a", ":">>

DataUrl(content) == DataPrefix \o <<",">> \o content

\* the payloads the user may upload
Images ==
    { DataUrl(<<"Q", "U", "J", "D">>),
      DataUrl(<<"Q", "Q", "=", "=">>),
      DataUrl(<<"=">>),
      DataUrl(<<"A">>),
      DataUrl(<<>>),
      DataUrl(<<"A", "*">>),
      DataUrl(<<"A", "=", "B">>),
      DataUrl(<<"A", "=", "=", "=">>),
      DataUrl(<<"A", ",", "B">>),
      DataPrefix,
      <<>>,
      <<"x", ",", "Q", "U", "J", "D">>,
      <<",", "Q", "U", "J", "D">> }

\* the detail texts the provider may send
Details == {<<>>, <<"n", "o">>, QuotaWord, KeyWord, <<"K", "E", "Y">>}

\* the first n - 1 and the last of the 24 annotations of a whole card
PartialCard(n) ==
    SubSeq(CardAnnotations(<<>>), 1, n - 1) \o <<LatticeAnnotation(24)>>

CardSizes == {14, 15, 19, 20, 24}

AnnotationLists ==
    { <<>>,
      <<FullText>>,
      <<FullText, Ann(<<"4", "2">>, 90, Flat)>>,
      <<FullText, Ann(<<"4", "2">>, 20, FarAway)>>,
      <<FullText, Ann(<<"1", "7">>, 90, Middle)>>,
      <<FullText, Ann(<<"1", "2">>, 90, TopLeft), Ann(<<"6", "0", "6", "3">>, 90, BottomRight)>> }
    \cup {<<FullText>> \o PartialCard(n) : n \in CardSizes}

NoResult == [r \in {} |-> r]

Responses ==
    {[status |-> st, text |-> d, result |-> NoResult] :
        st \in {400, 403, 404, 429, 500}, d \in Details}
    \cup {[status |-> 200, text |-> <<>>, result |-> [error |-> [message |-> d]]] :
            d \in Details}
    \cup {[status |-> 200, text |-> <<>>, result |-> [textAnnotations |-> l]] :
            l \in AnnotationLists}
    \cup {[status |-> 200, text |-> <<>>, result |-> NoResult]}

AppInit == PipelineIdle /\ TokenIdle /\ AppIdle /\ apiKey \in {"", "key"}

\* handleImageUpload up to its await: the state is set, parseBingoCard is
\* called and callGoogleVisionAPI checks the payload and calls fetch, or throws
handleImageUpload(imageBase64) ==
    IF apiKey = ""
    THEN /\ appError' = ApiKeyMissingMessage
         /\ UNCHANGED <<apiKey, appPc, isProcessing, currentCard, currentImage, response,
                        calls, requests, lowDetectionLogged, reading, analyses>>
    ELSE /\ isProcessing' = TRUE
         /\ appError' = Null
         /\ currentCard' = NoCard
         /\ currentImage' = imageBase64
         /\ response' = NoResponse
         /\ calls' = calls + 1
         /\ requests' = requests + fetchCount(imageBase64)
         /\ appPc' = IF fetchCount(imageBase64) = 0 THEN "rejected" ELSE "awaiting"
         /\ UNCHANGED <<apiKey, lowDetectionLogged, reading, analyses>>

\* the user picks a file: FileUpload is rendered when there is no card, no
\* error and no run
Upload ==
    /\ appPc = "idle"
    /\ currentCard = NoCard /\ appError = Null /\ ~isProcessing
    /\ calls < MaxCalls
    /\ \E imageBase64 \in Images : handleImageUpload(imageBase64)
    /\ UNCHANGED pipeVars
    /\ UNCHANGED tokenVars

\* the user clicks Retry: ErrorMessage is rendered when there is an error
handleRetry ==
    /\ appPc = "idle"
    /\ appError # Null
    /\ calls < MaxCalls
    /\ IF currentImage # Null THEN handleImageUpload(currentImage) ELSE UNCHANGED appVars
    /\ UNCHANGED pipeVars
    /\ UNCHANGED tokenVars

\* the user clicks "Analyze Another Card": rendered when there is a card
resetApp ==
    /\ appPc = "idle"
    /\ currentCard # NoCard
    /\ currentCard' = NoCard
    /\ appError' = Null
    /\ currentImage' = Null
    /\ isProcessing' = FALSE
    /\ UNCHANGED <<apiKey, appPc, response, calls, requests, lowDetectionLogged,
                   reading, analyses>>
    /\ UNCHANGED pipeVars
    /\ UNCHANGED tokenVars

\* the provider answers the request
ProviderRespond ==
    /\ appPc = "awaiting"
    /\ \E answer \in Responses : response' = answer
    /\ appPc' = "responded"
    /\ UNCHANGED <<apiKey, isProcessing, currentCard, appError, currentImage, calls,
                   requests, lowDetectionLogged, reading, analyses>>
    /\ UNCHANGED pipeVars
    /\ UNCHANGED tokenVars

\* what parseBingoCard returns or throws in the running call
parsedNow ==
    IF appPc = "rejected"
    THEN [threw |-> TRUE, message |-> rewrap(validateImage(currentImage))]
    ELSE parseOutcome(callOutcome(response))

\* the rest of handleImageUpload for that outcome: try, catch and finally
finish(parsed) ==
    /\ currentCard' = cardAfter(parsed)
    /\ appError' = errorAfter(parsed)
    /\ isProcessing' = FALSE
    /\ lowDetectionLogged' = LowDetectionLogged(parsed)
    /\ appPc' = "idle"
    /\ UNCHANGED <<apiKey, currentImage, response, calls, requests>>

\* parseBingoCard settles and handleImageUpload goes on
Finish ==
    /\ appPc \in {"rejected", "responded"}
    /\ finish(parsedNow)
    /\ UNCHANGED <<reading, analyses>>
    /\ UNCHANGED pipeVars
    /\ UNCHANGED tokenVars

AppNext ==
    \/ Upload
    \/ handleRetry
    \/ resetApp
    \/ ProviderRespond
    \/ Finish

AppSpec == AppInit /\ [][AppNext]_vars

(***************************************************************************)
(* The App with FileUpload: file reads and analyses that overlap           *)
(***************************************************************************)
\* the files the user may pick, as the data URLs their reads produce
SessionImages ==
    { DataUrl(<<"Q", "U", "J", "D">>),
      DataUrl(<<"Q", "Q", "=", "=">>),
      DataPrefix }

\* the answers of the provider in these runs
SessionResponses ==
    { [status |-> 500, text |-> <<>>, result |-> NoResult],
      [status |-> 200, text |-> <<>>,
       result |-> [textAnnotations |-> <<FullText>> \o PartialCard(24)]],
      [status |-> 200, text |-> <<>>,
       result |-> [textAnnotations |-> <<FullText>> \o PartialCard(19)]] }

\* a run of handleImageUpload that awaits parseBingoCard
Pending(imageBase64) ==
    [image |-> imageBase64, pending |-> TRUE, card |-> NoCard, error |-> Null]

\* a run of handleImageUpload whose parseBingoCard returned or threw `parsed`,
\* with the card and the error it shows when no other run interferes
Settled(imageBase64, parsed) ==
    [image |-> imageBase64, pending |-> FALSE,
     card |-> cardAfter(parsed), error |-> errorAfter(parsed)]

\* try, catch and finally of handleImageUpload once parseBingoCard settled:
\* the card is set when one was returned, the error when one was thrown or
\* the card has few numbers, and isProcessing is cleared
settle(parsed) ==
    /\ currentCard' = IF parsed.threw THEN currentCard ELSE parsed.card
    /\ appError' = IF parsed.threw THEN parsed.message
                   ELSE IF parsed.card.totalNumbers < AppWarningThreshold
                   THEN warningMessage(parsed.card.totalNumbers)
                   ELSE appError
    /\ isProcessing' = FALSE
    /\ lowDetectionLogged' = LowDetectionLogged(parsed)

\* handleImageUpload as FileUpload and Retry call it, up to its await. A
\* payload that callGoogleVisionAPI rejects makes parseBingoCard throw before
\* any request, and catch and finally run before the next event.
onImageUpload(imageBase64) ==
    IF apiKey = ""
    THEN /\ appError' = ApiKeyMissingMessage
         /\ UNCHANGED <<apiKey, appPc, isProcessing, currentCard, currentImage, response,
                        calls, requests, lowDetectionLogged, analyses>>
    ELSE /\ currentImage' = imageBase64
         /\ calls' = calls + 1
         /\ requests' = requests + fetchCount(imageBase64)
         /\ IF fetchCount(imageBase64) = 0
            THEN LET parsed == [threw |-> TRUE,
                                message |-> rewrap(validateImage(imageBase64))]
                 IN /\ currentCard' = NoCard
                    /\ appError' = parsed.message
                    /\ isProcessing' = FALSE
                    /\ lowDetectionLogged' = LowDetectionLogged(parsed)
                    /\ analyses' = Append(analyses, Settled(imageBase64, parsed))
            ELSE /\ isProcessing' = TRUE
                 /\ appError' = Null
                 /\ currentCard' = NoCard
                 /\ lowDetectionLogged' = lowDetectionLogged
                 /\ analyses' = Append(analyses, Pending(imageBase64))
         /\ UNCHANGED <<apiKey, appPc, response>>

\* FileUpload is rendered when there is no card, no error and no run
FileUploadRendered == currentCard = NoCard /\ appError = Null /\ ~isProcessing

\* the runs of handleImageUpload that the reads and the state still allow
CallsLeft == calls + Len(reading) < MaxCalls

\* the user picks or drops an image file: handleFiles starts a FileReader
handleFiles ==
    /\ FileUploadRendered
    /\ CallsLeft
    /\ \E file \in SessionImages : reading' = Append(reading, file)
    /\ UNCHANGED <<apiKey, appPc, isProcessing, currentCard, appError, currentImage,
                   response, calls, requests, lowDetectionLogged, analyses>>
    /\ UNCHANGED pipeVars
    /\ UNCHANGED tokenVars

\* a FileReader fires its load event: reader.onload calls onImageUpload
onload ==
    /\ \E k \in 1..Len(reading) :
          /\ onImageUpload(reading[k])
          /\ reading' = SubSeq(reading, 1, k - 1) \o SubSeq(reading, k + 1, Len(reading))
    /\ UNCHANGED pipeVars
    /\ UNCHANGED tokenVars

\* the user clicks Retry: ErrorMessage is rendered when there is an error
retry ==
    /\ appError # Null
    /\ CallsLeft
    /\ IF currentImage # Null
       THEN onImageUpload(currentImage) /\ reading' = reading
       ELSE UNCHANGED appVars
    /\ UNCHANGED pipeVars
    /\ UNCHANGED tokenVars

\* parseBingoCard of one of the runs settles after the provider's answer
settleAnalysis ==
    /\ \E id \in 1..Len(analyses) :
          /\ analyses[id].pending
          /\ \E answer \in SessionResponses :
                LET parsed == parseOutcome(callOutcome(answer))
                IN /\ settle(parsed)
                   /\ analyses' = [analyses EXCEPT ![id] = Settled(analyses[id].image, parsed)]
    /\ UNCHANGED <<apiKey, appPc, currentImage, response, calls, requests, reading>>
    /\ UNCHANGED pipeVars
    /\ UNCHANGED tokenVars

SessionInit == PipelineIdle /\ TokenIdle /\ AppIdle /\ apiKey \in {"", "key"}

SessionNext ==
    \/ handleFiles
    \/ onload
    \/ retry
    \/ resetApp
    \/ settleAnalysis

SessionSpec == SessionInit /\ [][SessionNext]_vars

(***************************************************************************)
(* The grid locator applied to a list of fragments of its own              *)
(***************************************************************************)
Frag(text, confidence, vertices) == toOcrResult(Ann(text, confidence, vertices))

\* a strip above the lattice, over column col
HeaderRect(col) == Rect(20 * col + 5, 0, 20 * col + 15, 4)

HeaderRows ==
    { <<>>,
      <<Frag(<<"B">>, 90, HeaderRect(0)), Frag(<<"I">>, 90, HeaderRect(1))>>,
      <<Frag(<<"O">>, 90, HeaderRect(4)), Frag(<<"B">>, 90, HeaderRect(0)),
        Frag(<<"N">>, 90, HeaderRect(2))>>,
      <<Frag(<<"B">>, 90, HeaderRect(0)), Frag(<<"I">>, 90, HeaderRect(1)),
        Frag(<<"N">>, 90, HeaderRect(2)), Frag(<<"G">>, 90, HeaderRect(3)),
        Frag(<<"O">>, 90, HeaderRect(4))>>,
      <<Frag(<<"b">>, 90, HeaderRect(0)), Frag(<<"i">>, 90, HeaderRect(1)),
        Frag(<<"n">>, 90, HeaderRect(2))>>,
      <<Frag(<<" ", "B">>, 90, HeaderRect(0)), Frag(<<"I", " ">>, 90, HeaderRect(1)),
        Frag(<<"N", "\n">>, 90, HeaderRect(2))>>,
      <<Frag(<<"B">>, 90, HeaderRect(2)), Frag(<<"B">>, 90, HeaderRect(2)),
        Frag(<<"B">>, 90, HeaderRect(2))>> }

LatticeFrag(k) == toOcrResult(LatticeAnnotation(k))

NumberFrags ==
    { <<LatticeFrag(0)>>,
      <<LatticeFrag(0), LatticeFrag(24)>>,
      <<LatticeFrag(18), LatticeFrag(6), LatticeFrag(13)>>,
      [k \in 1..24 |-> toOcrResult(CardAnnotations(<<>>)[k])],
      <<LatticeFrag(0), Frag(<<"7", "0">>, 90, FarAway)>>,
      <<Frag(<<"x">>, 90, LatticeRect(1, 2)), LatticeFrag(24)>>,
      <<Frag(<<"4", "2">>, 90, Flat)>>,
      <<Frag(<<"4", "2">>, 90, Rect(10, 50, 30, 50)), Frag(<<"7">>, 90, Rect(60, 50, 80, 50))>> }

LocatorInputs == {h \o n : h \in HeaderRows, n \in NumberFrags}

\* detectGridWithMultipleStrategies is called with one of the lists
LocatorInit ==
    /\ TokenIdle
    /\ AppIdle
    /\ apiKey = "key"
    /\ pc = "locate"
    /\ textAnnotations = <<>>
    /\ rawOcrResults = <<>>
    /\ ocrResults \in LocatorInputs
    /\ gridCells = EmptyGrid
    /\ card = NoCard
    /\ error = Null

LocatorNext ==
    \/ Locate
    \/ Resolve

LocatorSpec == LocatorInit /\ [][LocatorNext]_vars

(***************************************************************************)
(* Properties                                                              *)
(***************************************************************************)
Returned == pc = "done"

NumberIndices == 1..Len(card.numbers)

CentreCell == gridCells[FREE_SPACE_ROW][FREE_SPACE_COL]

\* C1: every returned card has oddsCount + evensCount = totalNumbers =
\* the length of numbers, and totalNumbers is at most 24.
C1_CountsAgree ==
    Returned =>
        /\ card.oddsCount + card.evensCount = card.totalNumbers
        /\ card.totalNumbers = Len(card.numbers)
        /\ card.totalNumbers <= 24

\* a card with all 24 numbers, returned while the centre cell held a fragment
C1_Witness ==
    /\ Returned
    /\ card.totalNumbers = 24
    /\ CentreCell # <<>>

\* C2: the value of every element of numbers lies in the inclusive range of
\* its own column: 1..15, 16..30, 31..45, 46..60, 61..75 for columns 0..4.
C2_ValueInColumnRange ==
    Returned =>
        \A k \in NumberIndices :
            /\ card.numbers[k].value >= 15 * card.numbers[k].col + 1
            /\ card.numbers[k].value <= 15 * card.numbers[k].col + 15

\* the winner 63 of column 4 taken from the merged text "6063", whose other
\* candidates belong to other columns
C2_Witness ==
    /\ Returned
    /\ \E k \in NumberIndices : card.numbers[k].value = 63 /\ card.numbers[k].col = 4
    /\ \E r \in Elements(ocrResults) : r.text = <<"6", "0", "6", "3">>

\* C3: every element of numbers has row and col in 0..4 and is not in the
\* centre cell (2,2), even when a fragment of that cell carries a number that
\* is valid for column N.
C3_NoNumberInCentre ==
    Returned =>
        \A k \in NumberIndices :
            /\ card.numbers[k].row \in 0..4
            /\ card.numbers[k].col \in 0..4
            /\ ~(card.numbers[k].row = 2 /\ card.numbers[k].col = 2)

\* a card returned while the centre cell held a fragment with a candidate of
\* column N
C3_Witness ==
    /\ Returned
    /\ \E r \in Elements(CentreCell) :
          \E n \in Elements(extractAllPossibleNumbers(r.text)) : n >= 31 /\ n <= 45

\* C4: no two elements of numbers share the same (row, col).
C4_OnePerCell ==
    Returned =>
        \A j, k \in NumberIndices :
            (card.numbers[j].row = card.numbers[k].row
             /\ card.numbers[j].col = card.numbers[k].col) => j = k

\* a cell other than the centre that held two fragments and has a winner
C4_Witness ==
    /\ Returned
    /\ \E k \in NumberIndices :
          Len(gridCells[card.numbers[k].row][card.numbers[k].col]) >= 2

\* C5: freeSpaceContent is the trimmed text of a fragment of the centre cell
\* whose confidence no other fragment of the cell exceeds, and "FREE" when the
\* cell is empty; a fragment "17" of confidence 0.9 that is alone in the
\* centre cell gives freeSpaceContent = "17" and adds nothing to numbers:
\* numbers is what the grid gives with the centre cell emptied, and is empty
\* when that fragment is the only accepted one.
C5_FreeSpaceContent ==
    Returned =>
        /\ CentreCell = <<>> => card.freeSpaceContent = <<"F", "R", "E", "E">>
        /\ CentreCell # <<>> =>
              \E k \in 1..Len(CentreCell) :
                  /\ \A j \in 1..Len(CentreCell) :
                        CentreCell[j].confidence <= CentreCell[k].confidence
                  /\ card.freeSpaceContent = trim(CentreCell[k].text)
        /\ \A r \in Elements(CentreCell) :
              (/\ r.text = <<"1", "7">>
               /\ r.confidence = 90
               /\ \A o \in Elements(CentreCell) : o = r \/ o.confidence < 90)
              => /\ card.freeSpaceContent = <<"1", "7">>
                 /\ card.numbers =
                        buildCard([gridCells EXCEPT
                            ![FREE_SPACE_ROW][FREE_SPACE_COL] = <<>>]).numbers
                 /\ Len(ocrResults) = 1 => card.numbers = <<>>

\* the centre cell holds "17" with confidence 0.9 behind a fragment of lower
\* confidence that arrived first
C5_Witness ==
    /\ Returned
    /\ Len(CentreCell) >= 2
    /\ CentreCell[1].confidence < CentreCell[2].confidence
    /\ CentreCell[2].text = <<"1", "7">>
    /\ CentreCell[2].confidence = 90

\* the sum of the confidences of a list of numbers, as the size of a set that
\* holds confidence-many pairs for each of them
SumOfConfidences(numbers) ==
    Cardinality({<<k, u>> \in (1..Len(numbers)) \X (1..100) : u <= numbers[k].confidence})

\* C6: the confidence of a returned card lies in [0, 1], is the arithmetic
\* mean of the winners' confidences, and is 0 exactly when totalNumbers is 0.
C6_ConfidenceIsMean ==
    Returned =>
        /\ card.confidence.den > 0
        /\ card.confidence.num >= 0
        /\ card.confidence.num <= 100 * card.confidence.den
        /\ card.confidence.num * Len(card.numbers)
               = SumOfConfidences(card.numbers) * card.confidence.den
        /\ (card.confidence.num = 0) <=> (card.totalNumbers = 0)

\* a winner 15 that comes from a "SPACE" annotation of confidence 0, which
\* reaches the pipeline with the default confidence 0.8
C6_Witness ==
    /\ Returned
    /\ \E a \in Elements(Tail(textAnnotations)) :
          /\ a.description = <<"S", "P", "A", "C", "E">>
          /\ a.confidence = 0
    /\ \E k \in NumberIndices :
          card.numbers[k].value = 15 /\ card.numbers[k].confidence = 80

Extracted == tfPc = "extracted"

Filtered == tfPc \in {"filtered", "extracted"}

\* equality of two texts up to the case of their letters
SameIgnoringCase(a, b) ==
    /\ Len(a) = Len(b)
    /\ \A k \in 1..Len(a) :
          \/ a[k] = b[k]
          \/ \E l \in 1..Len(LowerCase) :
                {a[k], b[k]} = {LowerCase[l], UpperCase[l]}

\* C8: the token filter accepts every fragment whose trimmed text equals
\* "FREE" or "SPACE" up to case, at every confidence and without one.
C8_FreeAndSpaceAccepted ==
    (/\ Filtered
     /\ \/ SameIgnoringCase(trim(tfResult.text), <<"F", "R", "E", "E">>)
        \/ SameIgnoringCase(trim(tfResult.text), <<"S", "P", "A", "C", "E">>))
    => tfAccepted

\* a padded, mixed-case "Free" without a confidence has been accepted
C8_Witness ==
    /\ Filtered
    /\ tfResult.text = <<" ", "F", "r", "e", "e", "\n">>
    /\ "confidence" \notin DOMAIN tfResult
    /\ tfAccepted

\* C9: the token filter rejects every fragment whose trimmed text is one of
\* the characters B, I, N, G, O, at every confidence.
C9_HeadersRejected ==
    (Filtered /\ trim(tfResult.text) \in {<<"B">>, <<"I">>, <<"N">>, <<"G">>, <<"O">>})
    => ~tfAccepted

\* a padded "B" of confidence 1.0, from which numbers can be extracted
C9_Witness ==
    /\ Extracted
    /\ tfResult.text = <<" ", "B">>
    /\ "confidence" \in DOMAIN tfResult
    /\ tfResult.confidence = 100
    /\ tfNumbers # <<>>
    /\ ~tfAccepted

\* a fragment below the threshold whose text is neither FREE nor SPACE
IsNoise(r) ==
    /\ r.confidence < 30
    /\ ~SameIgnoringCase(trim(r.text), <<"F", "R", "E", "E">>)
    /\ ~SameIgnoringCase(trim(r.text), <<"S", "P", "A", "C", "E">>)

WithoutNoise(results) == filterIn(results, {r \in Elements(results) : ~IsNoise(r)})

\* C10: a fragment below 0.3 that is neither FREE nor SPACE is rejected and is
\* without effect: it is no accepted fragment, it is in no cell, and when the
\* input holds such a fragment the accepted fragments, the cells, the card and
\* the failure are those of the run on the input without it.
C10_NoiseHasNoEffect ==
    LET kept == filterResults(WithoutNoise(rawOcrResults))
        located == detectGridWithMultipleStrategies(kept)
    IN /\ pc \in {"locate", "resolve", "done", "failed"} =>
             \A r \in Elements(ocrResults) : ~IsNoise(r)
       /\ pc \in {"resolve", "done"} =>
             \A row, col \in 0..4 : \A r \in Elements(gridCells[row][col]) : ~IsNoise(r)
       /\ (\E r \in Elements(rawOcrResults) : IsNoise(r)) =>
             /\ pc \in {"locate", "resolve", "done", "failed"} => ocrResults = kept
             /\ pc \in {"resolve", "done"} =>
                   /\ ~located.threw
                   /\ gridCells = located.grid
             /\ pc = "done" => card = buildCard(located.grid)
             /\ pc = "failed" =>
                   \/ kept = <<>> /\ error = NoValidText
                   \/ kept # <<>> /\ located.threw /\ error = GridTypeError

\* a card returned although the rejected "42" of confidence 0.2 lay outside
\* the box of the accepted fragments: with it the cells would have differed
C10_Witness ==
    /\ Returned
    /\ \E r \in Elements(rawOcrResults) :
          r.text = <<"4", "2">> /\ r.confidence = 20 /\ IsNoise(r)
    /\ card.totalNumbers >= 1
    /\ gridFromBoundingBoxRelaxed(rawOcrResults).grid # gridCells
    /\ \A r \in Elements(rawOcrResults) : IsNoise(r) \/ r \in Elements(ocrResults)

\* the number of places of a list that hold r
occurrences(list, r) == Cardinality({k \in 1..Len(list) : list[k] = r})

\* the number of places of the cells of a grid that hold r
placed(grid, r) ==
    Cardinality({<<row, col, k>> \in Cells \X Cells \X (1..Len(ocrResults)) :
                    k <= Len(grid[row][col]) /\ grid[row][col][k] = r})

\* the grid locator was called in this run
Located == pc \in {"resolve", "done"} \/ (pc = "failed" /\ Len(ocrResults) > 0)

\* C11: once the grid locator was called, every fragment passed to it is in
\* exactly one cell of the grid: it is in the cells as many times as it is in
\* the list, and the cells hold nothing else.
C11_EveryFragmentInOneCell ==
    Located =>
        /\ \A r \in Elements(ocrResults) : placed(gridCells, r) = occurrences(ocrResults, r)
        /\ \A row, col \in Cells :
              \A r \in Elements(gridCells[row][col]) : r \in Elements(ocrResults)

\* C12: oddsCount is the number of winners of odd value, evensCount the number
\* of the others, and isOdd of every winner tells whether its value is odd.
C12_OddEvenCounts ==
    Returned =>
        /\ card.oddsCount = Cardinality({k \in NumberIndices : card.numbers[k].value % 2 = 1})
        /\ card.evensCount = Cardinality({k \in NumberIndices : card.numbers[k].value % 2 # 1})
        /\ \A k \in NumberIndices :
              card.numbers[k].isOdd = (card.numbers[k].value % 2 = 1)

\* a card with more odd winners than even ones, and one even winner at least
C12_Witness ==
    /\ Returned
    /\ card.evensCount >= 1
    /\ card.oddsCount > card.evensCount

\* handleImageUpload has finished a call that got an answer, and the user has
\* done nothing since
Finished == appPc = "idle" /\ response # NoResponse /\ currentImage # Null

\* the answer is one callGoogleVisionAPI returns fragments for
Answered == responseOk(response.status) /\ "error" \notin DOMAIN response.result

\* the fragments of the answer that the token filter accepts
survivors == filterResults(callOutcome(response).value)

\* C13: when a fragment at least survives the token filter and fewer than 15
\* cells resolve, the call ends with a card displayed and the warning about
\* the number of detected numbers as the error.
C13_LowDetectionStillReturns ==
    (/\ Finished
     /\ Answered
     /\ Len(survivors) >= 1
     /\ ~(currentCard # NoCard /\ currentCard.totalNumbers >= LowDetectionThreshold))
    => /\ currentCard # NoCard
       /\ appError = warningMessage(currentCard.totalNumbers)

\* C14: a displayed card comes with the warning exactly when its totalNumbers
\* is below 15.
C14_WarningIffBelow15 ==
    (Finished /\ currentCard # NoCard) =>
        /\ (appError # Null) <=> (currentCard.totalNumbers < LowDetectionThreshold)
        /\ appError # Null => appError = warningMessage(currentCard.totalNumbers)

\* C15: the error the caller gets is fixed by the provider's status alone,
\* whatever the detail text says: 429 gives the quota error, 403 the invalid
\* key error, 400 the bad-request error with the detail, any other status
\* that is not 2xx, and an embedded error object, a generic error with the detail.
C15_ErrorKindByStatus ==
    Finished =>
        /\ response.status = 429 => appError = QuotaMessage
        /\ response.status = 403 => appError = KeyMessage
        /\ response.status = 400 =>
              appError = OcrFailedPrefix \o BadRequestPrefix \o response.text
        /\ (~responseOk(response.status) /\ response.status \notin {400, 403, 429}) =>
              appError = OcrFailedPrefix \o VisionErrorPrefix \o toDecimal(response.status)
                            \o ResponseInfix \o response.text
        /\ (responseOk(response.status) /\ "error" \in DOMAIN response.result) =>
              appError = OcrFailedPrefix \o response.result.error.message

\* C16: a call whose answer leaves no fragment after the token filter (an
\* answer without annotations included) ends with the no-valid-text error and
\* no card; a call whose answer leaves a fragment never ends with that error.
C16_NoValidTextIffNoSurvivor ==
    (Finished /\ Answered) =>
        /\ (Len(survivors) = 0) <=> (appError = NoValidText)
        /\ Len(survivors) = 0 => currentCard = NoCard

\* fragments came back, the filter rejected them all, and the call failed
C16_Witness ==
    /\ Finished
    /\ Answered
    /\ Len(callOutcome(response).value) >= 1
    /\ Len(survivors) = 0
    /\ appError = NoValidText
    /\ currentCard = NoCard

\* a data URL: the payload starts with "data:"
IsDataUrl(payload) ==
    Len(payload) >= Len(DataPrefix) /\ SubSeq(payload, 1, Len(DataPrefix)) = DataPrefix

\* base64 as RFC 4648 writes it: groups of four characters of the alphabet,
\* the last group padded with at most two "="
WellFormedBase64(text) ==
    /\ Len(text) % 4 = 0
    /\ \E pad \in 0..2 :
        /\ pad <= Len(text)
        /\ \A i \in 1..(Len(text) - pad) : IsBase64Char(text[i])
        /\ \A i \in (Len(text) - pad + 1)..Len(text) : text[i] = "="

\* the payload the pipeline is specified to take
WellFormedPayload(payload) ==
    /\ IsDataUrl(payload)
    /\ Len(split(payload, ",")) = 2
    /\ Len(split(payload, ",")[2]) > 0
    /\ WellFormedBase64(split(payload, ",")[2])

InputFormatErrors ==
    {rewrap(InvalidFormatMessage), rewrap(EmptyContentMessage), rewrap(InvalidBase64Message)}

\* C17: a call with a payload that is not a data URL of exactly two parts
\* with a non-empty well-formed base64 second part never waits for the
\* provider, and ends with an input-format error and no card.
C17_InputFormatErrorBeforeRequest ==
    (currentImage # Null /\ ~WellFormedPayload(currentImage)) =>
        /\ appPc \in {"rejected", "idle"}
        /\ appPc = "idle" =>
            /\ response = NoResponse
            /\ currentCard = NoCard
            /\ appError \in InputFormatErrors

\* C18: one call of the pipeline sends at most one request: the number of
\* requests never exceeds the number of calls, and it grows, by one, only in
\* the step in which the caller starts a call (an upload or a retry).
C18_AtMostOneRequestPerCall ==
    /\ [](requests <= calls)
    /\ [][/\ requests' <= requests + 1
          /\ requests' # requests => calls' = calls + 1]_vars

\* the request of a second call is out
C18_Witness == calls = 2 /\ requests = 2 /\ appPc = "awaiting"

\* the numbers of a text that are valid for a column, in the order of extraction
validIn(text, col) ==
    LET inColumn(num) == validateNumberInColumn(num, col)
    IN SelectSeq(extractAllPossibleNumbers(text), inColumn)

\* for each fragment of a cell, its numbers valid for the column
validsOf(cell, col) == <<>> \o [k \in 1..Len(cell) |-> validIn(cell[k].text, col)]

\* among the fragments `among` of a cell, the one of highest confidence, and
\* of those the one that arrived first
firstBest(cell, among) ==
    CHOOSE k \in among :
        \A j \in among :
            \/ cell[j].confidence < cell[k].confidence
            \/ cell[j].confidence = cell[k].confidence /\ j >= k

\* the fragments of a cell that hold a number valid for the column
withNumber(valids) == {k \in 1..Len(valids) : valids[k] # <<>>}

\* the winner n of a cell is the first valid number of fragment `best`
wonBy(n, cell, valids, best) ==
    /\ Len(valids) = Len(cell)
    /\ n.value = Head(valids[best])
    /\ n.confidence = cell[best].confidence

tieRule(n, cell, valids) == wonBy(n, cell, valids, firstBest(cell, withNumber(valids)))

tiedFragments(cell, valids) ==
    \E i, j \in withNumber(valids) : i # j /\ cell[i].confidence = cell[j].confidence

LatticeWithoutCentre ==
    Len(textAnnotations) = 25 /\ Tail(textAnnotations) = CardAnnotations(<<>>)

\* the number of the lattice fragment of cell (row, col)
LatticeValue(row, col) == COLUMN_RANGES[col + 1].min + row

\* C20: 24 fragments on a uniform 5x5 lattice, one per cell other than the
\* centre, each a number valid for its column with confidence 0.9: the card
\* has totalNumbers = 24 and freeSpaceContent = "FREE", every cell other than
\* the centre has a winner, and each winner has the value, row and col of
\* the fragment of its cell.
C20_FullLattice ==
    (Returned /\ LatticeWithoutCentre) =>
        /\ card.totalNumbers = 24
        /\ card.freeSpaceContent = FreeText
        /\ \A k \in NumberIndices :
              /\ card.numbers[k].value
                    = LatticeValue(card.numbers[k].row, card.numbers[k].col)
              /\ card.numbers[k].confidence = 90
        /\ \A c \in (0..24) \ {12} :
              \E k \in NumberIndices :
                  /\ card.numbers[k].row = c \div GRID_SIZE
                  /\ card.numbers[k].col = c % GRID_SIZE

C20_Witness ==
    /\ Returned
    /\ LatticeWithoutCentre
    /\ Len(card.numbers) = 24
    /\ CentreCell = <<>>

\* the substitution table read character by character: the digit a character
\* is taken for, or the character itself
substitute(c) ==
    IF \E k \in 1..Len(OCR_CORRECTIONS) : OCR_CORRECTIONS[k][1] = c
    THEN OCR_CORRECTIONS[CHOOSE k \in 1..Len(OCR_CORRECTIONS) : OCR_CORRECTIONS[k][1] = c][2]
    ELSE c

\* the text with each character replaced per the table, of the same length
substituted(text) == [k \in 1..Len(text) |-> substitute(text[k])]

InBingoRange(S) == {n \in S : n >= 1 /\ n <= 75}

\* the numbers of the one- and two-digit runs of a text
runNumbers(runs) == InBingoRange({parseInt(runs[k]) : k \in 1..Len(runs)})

\* every single digit and every pair of adjacent digits of a text
windowNumbers(text) ==
    InBingoRange({parseInt(<<text[i]>>) : i \in {j \in 1..Len(text) : IsDigit(text[j])}}
                 \cup {parseInt(SubSeq(text, i, i + 1)) :
                          i \in {j \in 1..(Len(text) - 1) :
                                    IsDigit(text[j]) /\ IsDigit(text[j + 1])}})

\* C21: extractAllPossibleNumbers returns, without duplicates, exactly the
\* numbers of 1..75 among the digit runs of the raw text, the digit runs of
\* the text substituted character by character, and the single digits and
\* adjacent pairs of the raw text; a text with no digit and no character of
\* the table yields nothing.
C21_ExtractIsUnionOfThree ==
    Extracted =>
        /\ Elements(tfNumbers)
               = runNumbers(matchDigitRuns(tfResult.text, 1))
                 \cup runNumbers(matchDigitRuns(substituted(tfResult.text), 1))
                 \cup windowNumbers(tfResult.text)
        /\ \A j, k \in 1..Len(tfNumbers) : tfNumbers[j] = tfNumbers[k] => j = k
        /\ (~hasDigit(substituted(tfResult.text))) => tfNumbers = <<>>

LocatorRan == pc \in {"resolve", "done", "failed"}

HeaderLetters == {"B", "I", "N", "G", "O"}

HeaderLettersAnyCase == HeaderLetters \cup {"b", "i", "n", "g", "o"}

\* the fragments of a list whose text is one character of a set
headersAmong(results, letters) ==
    {k \in 1..Len(results) : Len(results[k].text) = 1 /\ results[k].text[1] \in letters}

\* the fragments of a list that yield a number at least
numbered(results) ==
    {k \in 1..Len(results) : extractAllPossibleNumbers(results[k].text) # <<>>}

sublist(results, indices) ==
    LET kept(k) == k \in indices
        positions == SelectSeq([k \in 1..Len(results) |-> k], kept)
    IN [p \in 1..Len(positions) |-> results[positions[p]]]

\* the state after the locator is the outcome `located` of one strategy
ranAs(located) ==
    IF located.threw THEN pc = "failed" /\ error = GridTypeError
    ELSE pc \in {"resolve", "done"} /\ gridCells = located.grid

\* the strategy that the priority order selects when the headers are the
\* fragments `headers` of the input
selected(results, headers) ==
    IF Cardinality(headers) >= 3
    THEN gridFromHeaders(sortByCenterX(sublist(results, headers)), results)
    ELSE IF Cardinality(numbered(results)) >= 20
    THEN gridFromBoundingBoxRelaxed(sublist(results, numbered(results)))
    ELSE gridFromBoundingBoxRelaxed(results)

maxConfidence(cell, among) ==
    CHOOSE c \in {cell[i].confidence : i \in among} :
        \A i \in among : cell[i].confidence <= c

\* n is a winner of the cell: it has the highest confidence of the fragments
\* that hold a valid number, and its value is a valid number of such a fragment
bestOfCell(n, cell, valids) ==
    /\ Len(valids) = Len(cell)
    /\ n.confidence = maxConfidence(cell, withNumber(valids))
    /\ \E i \in withNumber(valids) :
          /\ cell[i].confidence = n.confidence
          /\ n.value \in Elements(valids[i])

\* the cell (row, col) has one winner in numbers, and it is a best of the cell
cellResolved(row, col, valids) ==
    withNumber(valids) # {} =>
        \E k \in NumberIndices :
            /\ card.numbers[k].row = row
            /\ card.numbers[k].col = col
            /\ bestOfCell(card.numbers[k], gridCells[row][col], valids)

\* C23: every cell other than the centre that holds a number valid for its
\* column has a winner whose confidence is the highest among the fragments of
\* the cell that yield a valid number, and whose value is a valid number of a
\* fragment of that confidence.
C23_WinnerHasHighestConfidence ==
    Returned =>
        \A row, col \in Cells :
            (row = FREE_SPACE_ROW /\ col = FREE_SPACE_COL)
            \/ cellResolved(row, col, validsOf(gridCells[row][col], col))

\* a cell whose first fragment holds a valid number and a later fragment one
\* of higher confidence, which won
C23_Witness ==
    /\ Returned
    /\ \E k \in NumberIndices :
          \E i, j \in 1..Len(gridCells[card.numbers[k].row][card.numbers[k].col]) :
              /\ i < j
              /\ gridCells[card.numbers[k].row][card.numbers[k].col][i].confidence
                    < gridCells[card.numbers[k].row][card.numbers[k].col][j].confidence
              /\ gridCells[card.numbers[k].row][card.numbers[k].col][j].confidence
                    = card.numbers[k].confidence
              /\ validIn(gridCells[card.numbers[k].row][card.numbers[k].col][i].text,
                         card.numbers[k].col) # <<>>

\* the relaxed bounding box was the strategy of this run
RelaxedRan ==
    LocatorRan /\ Cardinality(headersAmong(ocrResults, HeaderLettersAnyCase)) < MinHeaders

\* C24: the relaxed bounding box returns a grid for every non-empty working
\* set, one of zero width or height included, and the grid holds every
\* fragment of the set in exactly one of its 25 cells.
C24_RelaxedPlacesEveryFragment ==
    (RelaxedRan /\ Len(ocrResults) > 0) =>
        /\ pc # "failed"
        /\ \A r \in Elements(ocrResults) : placed(gridCells, r) = occurrences(ocrResults, r)

\* the filtered list is the one the grid locator is called with
HandedToLocator == pc = "locate" \/ Located

\* C25: the list the grid locator is called with holds no fragment whose
\* trimmed text is a single header letter, findHeaders returns nothing on it,
\* and the headers it returns are too few for the header strategy, which the
\* locator takes for MinHeaders headers or more.
C25_NoHeaderReachesLocator ==
    HandedToLocator =>
        /\ \A r \in Elements(ocrResults) : ~IsHeaderText(trim(r.text))
        /\ findHeaders(ocrResults) = <<>>
        /\ Len(findHeaders(ocrResults)) < MinHeaders

\* the provider returned a header letter, and the locator ran on the rest
C25_Witness ==
    /\ Returned
    /\ \E r \in Elements(rawOcrResults) : IsHeaderText(r.text)

\* a text of one or two digits
IsPlainNumeral(text) ==
    Len(text) \in 1..2 /\ \A k \in 1..Len(text) : IsDigit(text[k])

\* the cell holds one fragment, a plain numeral valid for the column
singleNumeral(cell, col) ==
    /\ Len(cell) = 1
    /\ IsPlainNumeral(Head(cell).text)
    /\ validateNumberInColumn(parseInt(Head(cell).text), col)

\* C26: a cell other than the centre that holds a single fragment whose text
\* is a numeral n of one or two digits valid for the column has one winner,
\* and its value is n: none of the other numbers read out of the text wins.
C26_PlainNumeralWins ==
    Returned =>
        \A row, col \in Cells :
            (~(row = FREE_SPACE_ROW /\ col = FREE_SPACE_COL)
                /\ singleNumeral(gridCells[row][col], col)) =>
                /\ \E k \in NumberIndices :
                      card.numbers[k].row = row /\ card.numbers[k].col = col
                /\ \A k \in NumberIndices :
                      (card.numbers[k].row = row /\ card.numbers[k].col = col) =>
                          card.numbers[k].value = parseInt(Head(gridCells[row][col]).text)

\* "12" alone in a cell of column B, where 11, 1 and 2 are valid as well
C26_Witness ==
    /\ Returned
    /\ singleNumeral(gridCells[0][0], 0)
    /\ Head(gridCells[0][0]).text = <<"1", "2">>
    /\ \E k \in NumberIndices :
          card.numbers[k].row = 0 /\ card.numbers[k].col = 0 /\ card.numbers[k].value = 12

\* the runs of handleImageUpload that still await parseBingoCard
InFlight == {id \in 1..Len(analyses) : analyses[id].pending}

\* the run started last
LatestAnalysis == analyses[Len(analyses)]

\* nothing is displayed: no card and no error
DisplayBlank == currentCard = NoCard /\ appError = Null

\* C27: while a run is in flight isProcessing is true; once none is,
\* isProcessing is false and the card and error displayed are those of the run
\* started last, the one for currentImage; and an older result is discarded:
\* nothing is displayed after a reset, nor while the run started last is in
\* flight.
C27_LatestAnalysisDisplayed ==
    analyses # <<>> =>
        /\ InFlight # {} => isProcessing
        /\ InFlight = {} => ~isProcessing
        /\ (InFlight = {} /\ currentImage # Null) =>
              /\ LatestAnalysis.image = currentImage
              /\ currentCard = LatestAnalysis.card
              /\ appError = LatestAnalysis.error
        /\ currentImage = Null => DisplayBlank
        /\ LatestAnalysis.pending => DisplayBlank

====
